---------------------------- MODULE Spec2Model ----------------------------
(***************************************************************************)
(* A model of rmbuild/util.py: the Worker thread pool (a queue.Queue       *)
(* drained by daemon threads that stop on the first recorded error) and    *)
(* the recursive content hash hash_path.                                   *)
(***************************************************************************)
EXTENDS Integers, Sequences, FiniteSets, TLC

(***************************************************************************)
(* Bounds of the model.                                                    *)
(***************************************************************************)
\* Number of threads the pool is constructed with (the `threads` argument).
NThreads == 2
\* Number of add_task() calls the environment makes.
MaxTasks == 3

\* Depth of the directory trees hash_path is run on.
MaxDepth == 2
\* Number of entries of a tree below its top.
MaxEntries == 2
\* Length in bytes of the longest file.
MaxLen == 3
\* Largest of the small chunk sizes the walk is run with.
MaxChunk == 2

Threads == 1..NThreads
Tasks == 1..MaxTasks
NoTask == 0
NoThread == 0

(***************************************************************************)
(* State of a Worker object and of the threads that use it.                *)
(***************************************************************************)
VARIABLES
    queue,       \* self.queue: the tasks put and not yet got, oldest first
    unfinished,  \* self.queue.unfinished_tasks: puts minus task_done() calls
    started,     \* self.started
    errors,      \* self.errors: the exceptions appended, named by their task
    pc,          \* per thread of self.threads: where it is in _func
    task,        \* per thread: the local `task` of _func, NoTask when none
    callerPc,    \* the controlling thread: "idle", in start(), in wait(), "raised"
    callerIdx,   \* the controlling thread's position in start()'s loop
    added,       \* number of add_task() calls made; call k carries task k
    \* ---- history of the run, read only by the properties ----
    invoked,     \* per task: how many times a worker has invoked it
    raised,      \* tasks whose invocation raised
    deqOrder,    \* tasks in the order q.get() returned them
    preStart,    \* number of tasks put before start() was called
    late,        \* tasks passed to add_task() when every thread had terminated
    sawEmpty,    \* per thread: its last `if self.errors` found errors empty
    deqAfterErr, \* per thread: tasks it dequeued while errors was non-empty
    exitLogged,  \* threads that logged "thread terminating"
    recorder,    \* the thread that appended the first error, NoThread before
    waitResult   \* how the last wait() returned: "none", "noop", "joined"

(***************************************************************************)
(* The filesystem hash_path walks, its arguments and what it returned.     *)
(***************************************************************************)
VARIABLES
    fs,          \* the tree under the path hashed: path below it -> kind, length
    namefilter,  \* hash_path's `namefilter`: None, or the set of names it rejects
    chunksize,   \* read_in_chunks' `chunksize`
    walks        \* the last two calls: the iteration order met, the accumulator

hashVars == <<fs, namefilter, chunksize, walks>>

poolVars == <<queue, unfinished, started, errors, pc, task, callerPc, callerIdx, added>>
histVars == <<invoked, raised, deqOrder, preStart, late, sawEmpty, deqAfterErr,
              exitLogged, recorder, waitResult>>
vars == <<poolVars, histVars, hashVars>>

Range(s) == {s[i] : i \in 1..Len(s)}

\* Every thread of the pool has run to its end.
AllDead == \A w \in Threads : pc[w] = "dead"
\* start() has been entered at least once.
StartCalled == started \/ callerPc \in {"start", "raised"}
\* Threads that hold a dequeued task.
InFlight == {w \in Threads : task[w] # NoTask}

\* A pool whose threads daemon() starts as it creates them (start=True).
WorkerInit_autostart ==
    /\ queue = <<>>
    /\ unfinished = 0
    /\ started = FALSE
    /\ errors = <<>>
    /\ pc = [w \in Threads |-> "check"]
    /\ task = [w \in Threads |-> NoTask]
    /\ callerPc = "idle"
    /\ callerIdx = 0
    /\ added = 0

\* Worker.__init__: the threads are created with start=False.
WorkerInit ==
    /\ queue = <<>>
    /\ unfinished = 0
    /\ started = FALSE
    /\ errors = <<>>
    /\ pc = [w \in Threads |-> "new"]
    /\ task = [w \in Threads |-> NoTask]
    /\ callerPc = "idle"
    /\ callerIdx = 0
    /\ added = 0

HistInit ==
    /\ invoked = [t \in Tasks |-> 0]
    /\ raised = {}
    /\ deqOrder = <<>>
    /\ preStart = 0
    /\ late = {}
    /\ sawEmpty = [w \in Threads |-> FALSE]
    /\ deqAfterErr = [w \in Threads |-> 0]
    /\ exitLogged = {}
    /\ recorder = NoThread
    /\ waitResult = "none"

(***************************************************************************)
(* hash_path and read_in_chunks.                                           *)
(*                                                                         *)
(* A name is a sequence of code points, a path a sequence of components    *)
(* counted from the top of the tree, a file's content a sequence of bytes. *)
(* The accumulator is the sequence of its update() calls, each tagged with *)
(* the entry it was made for; the digest is a function of the bytes fed,   *)
(* in order, and is modelled by those bytes.                               *)
(***************************************************************************)
\* read_in_chunks(fobj, chunksize=4096)
DefaultChunkSize == 4096
ChunkSizes == (1..MaxChunk) \cup {DefaultChunkSize}

\* The components entries are named with: "a" and a non-ASCII one, U+00E9.
Components == {<<97>>, <<233>>}
Slash == 47
\* The path hash_path is called on, below which the paths are counted.
Top == <<>>
Dot == 46

RECURSIVE PathsOfDepth(_)
PathsOfDepth(d) ==
    IF d = 0 THEN {<<>>}
    ELSE {Append(q, c) : q \in PathsOfDepth(d - 1), c \in Components}
AllPaths == UNION {PathsOfDepth(d) : d \in 0..MaxDepth}
Parent(q) == SubSeq(q, 1, Len(q) - 1)
IsPrefix(a, b) == Len(a) <= Len(b) /\ SubSeq(b, 1, Len(a)) = a

\* The trees: a top entry and at most MaxEntries entries below it, each in a
\* directory; a file has a length, its bytes follow from its name and length.
Shapes ==
    {S \in SUBSET (AllPaths \ {<<>>}) :
        /\ Cardinality(S) <= MaxEntries
        /\ \A q \in S : Len(q) > 1 => Parent(q) \in S}
Entries == [kind : {"dir"}, len : {0}] \cup [kind : {"file"}, len : 0..MaxLen]
Trees ==
    UNION {{f \in [S \cup {<<>>} -> Entries] :
                \A q \in S : f[Parent(q)].kind = "dir"} : S \in Shapes}

\* pathlib.Path.is_dir
IsDir(p) == fs[p].kind = "dir"
\* What open(str(p), 'rb') reads.
Content(p) ==
    LET seed == IF p = <<>> THEN 0 ELSE p[Len(p)][1]
    IN  [i \in 1..fs[p].len |-> (seed + i) % 256]
\* The entries pathlib.Path.iterdir yields for a directory, in no order.
Children(p) == {q \in DOMAIN fs : Len(q) = Len(p) + 1 /\ IsPrefix(p, q)}
Under(p) == {q \in DOMAIN fs : IsPrefix(p, q)}

Perms(S) ==
    {s \in [1..Cardinality(S) -> S] : \A i, j \in 1..Cardinality(S) : s[i] = s[j] => i = j}
\* iterdir yields the children "in arbitrary order": an order for each
\* directory a walk from p can enter.
IterOrders(p) ==
    LET dirs == {d \in Under(p) : IsDir(d)}
        seqs == UNION {Perms(Children(d)) : d \in dirs}
    IN  {o \in [dirs -> seqs] : \A d \in dirs : o[d] \in Perms(Children(d))}

\* PurePath.relative_to(root).as_posix(): the components after root's joined
\* with "/", and "." when there is none.
RelativeTo(p, rt) == SubSeq(p, Len(rt) + 1, Len(p))
RECURSIVE AsPosix(_)
AsPosix(rel) ==
    IF rel = <<>> THEN <<Dot>>
    ELSE IF Len(rel) = 1 THEN rel[1]
    ELSE rel[1] \o <<Slash>> \o AsPosix(Tail(rel))

\* A name without the mark of a directory.
EntryName_noSlash(p, rt) == AsPosix(RelativeTo(p, rt))

\* `name = p.relative_to(root).as_posix()`, and `name += "/"` for a directory.
EntryName(p, rt) ==
    AsPosix(RelativeTo(p, rt)) \o (IF IsDir(p) THEN <<Slash>> ELSE <<>>)

\* str.encode('utf-8'), code point by code point.
Utf8(cp) ==
    IF cp < 128 THEN <<cp>>
    ELSE IF cp < 2048 THEN <<192 + (cp \div 64), 128 + (cp % 64)>>
    ELSE IF cp < 65536
         THEN <<224 + (cp \div 4096), 128 + ((cp \div 64) % 64), 128 + (cp % 64)>>
    ELSE <<240 + (cp \div 262144), 128 + ((cp \div 4096) % 64),
           128 + ((cp \div 64) % 64), 128 + (cp % 64)>>
RECURSIVE Encode(_)
Encode(name) ==
    IF name = <<>> THEN <<>> ELSE Utf8(Head(name)) \o Encode(Tail(name))

\* fobj.read(n) at offset pos: up to n bytes, none at the end of the file.
Min(a, b) == IF a < b THEN a ELSE b
Read(data, pos, n) == SubSeq(data, pos + 1, Min(pos + n, Len(data)))

\* A reader that stops at the first short chunk and does not yield it.
RECURSIVE ReadInChunks_dropShort(_, _, _)
ReadInChunks_dropShort(data, pos, cs) ==
    LET chunk == Read(data, pos, cs)
    IN  IF Len(chunk) < cs THEN <<>>
        ELSE <<chunk>> \o ReadInChunks_dropShort(data, pos + Len(chunk), cs)

\* iter(lambda: fobj.read(chunksize), b''): the chunks read from offset pos
\* on, up to the first empty one.
RECURSIVE ReadInChunks(_, _, _)
ReadInChunks(data, pos, cs) ==
    LET chunk == Read(data, pos, cs)
    IN  IF chunk = <<>> THEN <<>>
        ELSE <<chunk>> \o ReadInChunks(data, pos + Len(chunk), cs)

\* h.update(data), made for entry src.
Update(h, src, kind, data) == Append(h, [src |-> src, kind |-> kind, data |-> data])

\* `for chunk in read_in_chunks(f): h.update(chunk)`
RECURSIVE FeedChunks(_, _, _)
FeedChunks(h, src, chunks) ==
    IF chunks = <<>> THEN h
    ELSE FeedChunks(Update(h, src, "chunk", Head(chunks)), src, Tail(chunks))

\* The digest of an accumulator: the bytes fed to it, in order.
RECURSIVE Digest(_)
Digest(h) == IF h = <<>> THEN <<>> ELSE Head(h).data \o Digest(Tail(h))

NoFilter == [given |-> FALSE, rejects |-> {}]
\* A filter that is applied to files only.
Pruned_filesOnly(p, name, nf) == nf.given /\ ~IsDir(p) /\ name \in nf.rejects

\* `if namefilter is not None and not namefilter(name): return h`
Pruned(p, name, nf) == nf.given /\ name \in nf.rejects

\* hash_path(path, hashobject, root, namefilter), with the order iterdir
\* yields each directory in.
RECURSIVE HashPath(_, _, _, _, _), HashEach(_, _, _, _, _)
\* A walk that feeds an entry's name after its children or its content.
HashPath_nameLast(p, h, rt, nf, order) ==
    LET name == EntryName(p, rt)
    IN  IF Pruned(p, name, nf) THEN h
        ELSE LET fed == IF IsDir(p)
                        THEN HashEach(order[p], h, rt, nf, order)
                        ELSE FeedChunks(h, p, ReadInChunks(Content(p), 0, chunksize))
             IN  Update(fed, p, "name", Encode(name))

HashPath(p, h, rt, nf, order) ==
    LET name == EntryName(p, rt)
    IN  IF Pruned(p, name, nf) THEN h
        ELSE LET fed == Update(h, p, "name", Encode(name))
             IN  IF IsDir(p)
                 THEN HashEach(order[p], fed, rt, nf, order)
                 ELSE FeedChunks(fed, p, ReadInChunks(Content(p), 0, chunksize))

\* `for fpath in path.iterdir(): hash_path(fpath, hashobject=h, ...)`
HashEach(children, h, rt, nf, order) ==
    IF children = <<>> THEN h
    ELSE HashEach(Tail(children), HashPath(Head(children), h, rt, nf, order),
                  rt, nf, order)

\* The controlling code hashes nothing while the pool is looked at.
HashIdle ==
    /\ fs = [q \in {<<>>} |-> [kind |-> "dir", len |-> 0]]
    /\ namefilter = NoFilter
    /\ chunksize = DefaultChunkSize
    /\ walks = <<>>

\* A tree to hash, a filter (None, or one rejecting some of the names the
\* walk can meet) and a chunk size.
HashInit ==
    /\ fs \in Trees
    /\ namefilter \in {NoFilter} \cup
          {[given |-> TRUE, rejects |-> R] :
              R \in SUBSET {EntryName(q, Top) : q \in DOMAIN fs}}
    /\ chunksize \in ChunkSizes
    /\ walks = <<>>

\* A call hash_path(path, namefilter=namefilter): `root = path`, a fresh
\* accumulator.  The last two calls are kept.
hash_path ==
    /\ \E order \in IterOrders(Top) :
          LET w == [order |-> order,
                    h |-> HashPath(Top, <<>>, Top, namefilter, order)]
          IN  walks' = IF Len(walks) < 2 THEN Append(walks, w) ELSE <<walks[2], w>>
    /\ UNCHANGED <<fs, namefilter, chunksize>>

Init == WorkerInit /\ HistInit /\ HashIdle

(***************************************************************************)
(* add_task: log, then queue.put.  The log line touches nothing of the     *)
(* pool, and put appends under the queue's mutex, so a call takes effect   *)
(* at its put, whoever makes it and whatever runs beside it.  The k-th     *)
(* call to take effect carries task k.                                     *)
(***************************************************************************)
\* A put at the wrong end of the queue.
QueuePut_front(q, t) == <<t>> \o q

\* queue.Queue.put on an unbounded queue.
QueuePut(q, t) == Append(q, t)

add_task(t) ==
    /\ added < MaxTasks
    /\ t = added + 1
    /\ added' = t
    /\ queue' = QueuePut(queue, t)
    /\ unfinished' = unfinished + 1
    /\ preStart' = IF StartCalled THEN preStart ELSE t
    /\ late' = IF AllDead THEN late \cup {t} ELSE late
    /\ UNCHANGED <<started, errors, pc, task, callerPc, callerIdx>>
    /\ UNCHANGED <<invoked, raised, deqOrder, sawEmpty, deqAfterErr, exitLogged, waitResult,
                   recorder>>

(***************************************************************************)
(* start: thread.start() for each thread in turn, then self.started = True.*)
(* threading.Thread.start raises RuntimeError on a thread started before;  *)
(* the exception leaves start() and the controlling thread with it.        *)
(***************************************************************************)
\* A start() that launches a terminated thread again.
start_thread_relaunch(i) ==
    /\ \/ callerPc = "idle" /\ i = 1
       \/ callerPc = "start" /\ i = callerIdx
    /\ pc[i] \in {"new", "dead"}
    /\ pc' = [pc EXCEPT ![i] = "check"]
    /\ IF i = NThreads
       THEN started' = TRUE /\ callerPc' = "idle" /\ callerIdx' = 0
       ELSE callerPc' = "start" /\ callerIdx' = i + 1 /\ UNCHANGED started
    /\ UNCHANGED <<queue, unfinished, errors, task, added>>
    /\ UNCHANGED histVars

start_thread(i) ==
    /\ \/ callerPc = "idle" /\ i = 1
       \/ callerPc = "start" /\ i = callerIdx
    /\ IF pc[i] = "new"
       THEN /\ pc' = [pc EXCEPT ![i] = "check"]
            /\ IF i = NThreads
               THEN started' = TRUE /\ callerPc' = "idle" /\ callerIdx' = 0
               ELSE callerPc' = "start" /\ callerIdx' = i + 1 /\ UNCHANGED started
       ELSE /\ callerPc' = "raised"
            /\ callerIdx' = 0
            /\ UNCHANGED <<pc, started>>
    /\ UNCHANGED <<queue, unfinished, errors, task, added>>
    /\ UNCHANGED histVars

(***************************************************************************)
(* wait: if self.started, thread.join() for each thread in turn.  A thread *)
(* that has terminated stays terminated, so the joins are over exactly     *)
(* when every thread has terminated.                                       *)
(***************************************************************************)
\* The test `if self.started` of wait().
WaitJoins == started

wait_call ==
    /\ callerPc = "idle"
    /\ IF WaitJoins
       THEN callerPc' = "join" /\ UNCHANGED waitResult
       ELSE waitResult' = "noop" /\ UNCHANGED callerPc
    /\ UNCHANGED <<queue, unfinished, started, errors, pc, task, callerIdx, added>>
    /\ UNCHANGED <<invoked, raised, deqOrder, preStart, late, sawEmpty, deqAfterErr, exitLogged,
                   recorder>>

\* A wait() that joins the first thread only.
Joined_first == pc[1] = "dead"

\* `for thread in self.threads: thread.join()` has gone through.
Joined == \A w \in Threads : pc[w] = "dead"

wait_return ==
    /\ callerPc = "join"
    /\ Joined
    /\ callerPc' = "idle"
    /\ waitResult' = "joined"
    /\ UNCHANGED <<queue, unfinished, started, errors, pc, task, callerIdx, added>>
    /\ UNCHANGED <<invoked, raised, deqOrder, preStart, late, sawEmpty, deqAfterErr, exitLogged,
                   recorder>>

(***************************************************************************)
(* _func: the drain loop each thread runs.  A step ends where the thread   *)
(* next touches what it shares: self.errors, the queue, the task.          *)
(***************************************************************************)
\* A loop without the test of self.errors.
ErrorsSeen_never == FALSE

\* `if self.errors: break`
ErrorsSeen == errors # <<>>

\* Leaving the loop: `self._log("thread terminating")`, and the thread ends.
func_check(w) ==
    /\ pc[w] = "check"
    /\ IF ErrorsSeen
       THEN /\ pc' = [pc EXCEPT ![w] = "dead"]
            /\ exitLogged' = exitLogged \cup {w}
       ELSE /\ pc' = [pc EXCEPT ![w] = "get"]
            /\ UNCHANGED exitLogged
    /\ sawEmpty' = [sawEmpty EXCEPT ![w] = (errors = <<>>)]
    /\ UNCHANGED deqAfterErr
    /\ UNCHANGED <<queue, unfinished, started, errors, task, callerPc, callerIdx, added>>
    /\ UNCHANGED <<invoked, raised, deqOrder, preStart, late, waitResult,
                   recorder>>

\* queue.Queue.get(False): the oldest item, and the queue without it.
QueueGet(q) == Head(q)
\* A get that leaves the item it returns in the queue.
QueueRest_keep(q) == q
QueueRest(q) == Tail(q)

\* A loop that polls again when it finds the queue empty.
func_get_retry(w) ==
    /\ pc[w] = "get"
    /\ IF queue = <<>>
       THEN /\ pc' = [pc EXCEPT ![w] = "check"]
            /\ UNCHANGED <<queue, task, deqOrder, deqAfterErr>>
       ELSE /\ task' = [task EXCEPT ![w] = QueueGet(queue)]
            /\ queue' = QueueRest(queue)
            /\ pc' = [pc EXCEPT ![w] = "call"]
            /\ deqOrder' = Append(deqOrder, QueueGet(queue))
            /\ deqAfterErr' = [deqAfterErr EXCEPT
                                 ![w] = IF errors # <<>> THEN @ + 1 ELSE @]
    /\ UNCHANGED <<unfinished, started, errors, callerPc, callerIdx, added>>
    /\ UNCHANGED <<invoked, raised, preStart, late, sawEmpty, exitLogged, waitResult,
                   recorder>>

\* `task = q.get(False)`, and `break` on queue.Empty.
func_get(w) ==
    /\ pc[w] = "get"
    /\ IF queue = <<>>
       THEN /\ pc' = [pc EXCEPT ![w] = "dead"]
            /\ exitLogged' = exitLogged \cup {w}
            /\ UNCHANGED <<queue, task, deqOrder, deqAfterErr>>
       ELSE /\ task' = [task EXCEPT ![w] = QueueGet(queue)]
            /\ queue' = QueueRest(queue)
            /\ pc' = [pc EXCEPT ![w] = "call"]
            /\ deqOrder' = Append(deqOrder, QueueGet(queue))
            /\ deqAfterErr' = [deqAfterErr EXCEPT
                                 ![w] = IF errors # <<>> THEN @ + 1 ELSE @]
            /\ UNCHANGED exitLogged
    /\ UNCHANGED <<unfinished, started, errors, callerPc, callerIdx, added>>
    /\ UNCHANGED <<invoked, raised, preStart, late, sawEmpty, waitResult,
                   recorder>>

\* A thread that ends after its first task instead of looping.
func_call_return_once(w) ==
    /\ pc[w] = "call"
    /\ invoked' = [invoked EXCEPT ![task[w]] = @ + 1]
    /\ unfinished' = unfinished - 1
    /\ task' = [task EXCEPT ![w] = NoTask]
    /\ pc' = [pc EXCEPT ![w] = "dead"]
    /\ exitLogged' = exitLogged \cup {w}
    /\ UNCHANGED <<queue, started, errors, callerPc, callerIdx, added>>
    /\ UNCHANGED <<raised, deqOrder, preStart, late, sawEmpty, deqAfterErr, waitResult,
                   recorder>>

\* `task()` returns: `q.task_done()`, and back to the top of the loop.
func_call_return(w) ==
    /\ pc[w] = "call"
    /\ invoked' = [invoked EXCEPT ![task[w]] = @ + 1]
    /\ unfinished' = unfinished - 1
    /\ task' = [task EXCEPT ![w] = NoTask]
    /\ pc' = [pc EXCEPT ![w] = "check"]
    /\ UNCHANGED <<queue, started, errors, callerPc, callerIdx, added>>
    /\ UNCHANGED <<raised, deqOrder, preStart, late, sawEmpty, deqAfterErr, exitLogged, waitResult,
                   recorder>>

\* A task() call outside any try: the exception ends the thread.
func_call_raise_uncaught(w) ==
    /\ pc[w] = "call"
    /\ invoked' = [invoked EXCEPT ![task[w]] = @ + 1]
    /\ raised' = raised \cup {task[w]}
    /\ pc' = [pc EXCEPT ![w] = "dead"]
    /\ UNCHANGED <<queue, unfinished, started, errors, task, callerPc, callerIdx, added>>
    /\ UNCHANGED <<deqOrder, preStart, late, sawEmpty, deqAfterErr, exitLogged, waitResult,
                   recorder>>

\* `task()` raises an Exception, which `except Exception as e` catches.
func_call_raise(w) ==
    /\ pc[w] = "call"
    /\ invoked' = [invoked EXCEPT ![task[w]] = @ + 1]
    /\ raised' = raised \cup {task[w]}
    /\ pc' = [pc EXCEPT ![w] = "except"]
    /\ UNCHANGED <<queue, unfinished, started, errors, task, callerPc, callerIdx, added>>
    /\ UNCHANGED <<deqOrder, preStart, late, sawEmpty, deqAfterErr, exitLogged, waitResult,
                   recorder>>

\* A handler that rebinds self.errors to a list of its own exception.
func_except_lost(w) ==
    /\ pc[w] = "except"
    /\ errors' = <<task[w]>>
    /\ unfinished' = unfinished - 1
    /\ task' = [task EXCEPT ![w] = NoTask]
    /\ pc' = [pc EXCEPT ![w] = "check"]
    /\ recorder' = IF errors = <<>> THEN w ELSE recorder
    /\ UNCHANGED <<queue, started, callerPc, callerIdx, added>>
    /\ UNCHANGED <<invoked, raised, deqOrder, preStart, late, sawEmpty, deqAfterErr,
                   exitLogged, waitResult>>

\* The handler: log, `self.errors.append(e)`; then `q.task_done()` and loop.
func_except(w) ==
    /\ pc[w] = "except"
    /\ errors' = Append(errors, task[w])
    /\ unfinished' = unfinished - 1
    /\ task' = [task EXCEPT ![w] = NoTask]
    /\ pc' = [pc EXCEPT ![w] = "check"]
    /\ recorder' = IF errors = <<>> THEN w ELSE recorder
    /\ UNCHANGED <<queue, started, callerPc, callerIdx, added>>
    /\ UNCHANGED <<invoked, raised, deqOrder, preStart, late, sawEmpty, deqAfterErr,
                   exitLogged, waitResult>>

Next ==
    \/ (\E t \in Tasks : add_task(t)) /\ UNCHANGED hashVars
    \/ (\E i \in Threads : start_thread(i)) /\ UNCHANGED hashVars
    \/ wait_call /\ UNCHANGED hashVars
    \/ wait_return /\ UNCHANGED hashVars
    \/ (\E w \in Threads : func_check(w)) /\ UNCHANGED hashVars
    \/ (\E w \in Threads : func_get(w)) /\ UNCHANGED hashVars
    \/ (\E w \in Threads : func_call_return(w)) /\ UNCHANGED hashVars
    \/ (\E w \in Threads : func_call_raise(w)) /\ UNCHANGED hashVars
    \/ (\E w \in Threads : func_except(w)) /\ UNCHANGED hashVars

Spec == Init /\ [][Next]_vars

HashNext == hash_path /\ UNCHANGED <<poolVars, histVars>>

HashSpecInit == WorkerInit /\ HistInit /\ HashInit

HashSpec == HashSpecInit /\ [][HashNext]_vars

\* start() once entered goes on through its loop.
start_continue == callerPc = "start" /\ \E i \in Threads : start_thread(i)

\* The threads are scheduled and the tasks they run terminate: a thread that
\* can take its next step takes it, a start() under way goes on, and a join
\* that can return returns.
FairSpec ==
    /\ Spec
    /\ \A w \in Threads :
          WF_vars((func_check(w) \/ func_get(w) \/ func_call_return(w)
                   \/ func_call_raise(w) \/ func_except(w)) /\ UNCHANGED hashVars)
    /\ WF_vars(start_continue /\ UNCHANGED hashVars)
    /\ WF_vars(wait_return /\ UNCHANGED hashVars)

(***************************************************************************)
(* Properties of the pool.                                                 *)
(***************************************************************************)

\* C1, pool completeness: when wait() has returned from its joins and no
\* task raised, errors is empty, every task put before start() has been
\* invoked exactly once and no task has been invoked twice.
PoolCompleteness ==
    (waitResult = "joined" /\ raised = {}) =>
        /\ errors = <<>>
        /\ \A t \in 1..preStart : invoked[t] = 1
        /\ \A t \in Tasks : invoked[t] <= 1

\* All the tasks were put before start(), none raised, wait() has returned.
PoolCompletenessWitness ==
    /\ waitResult = "joined"
    /\ raised = {}
    /\ preStart = MaxTasks
    /\ \A t \in Tasks : invoked[t] = 1

StopOnFirstErrorStrict == [][errors # <<>> => deqOrder' = deqOrder]_vars

\* C3, stop on first error, amended: once errors is non-empty, a thread that
\* evaluates `if self.errors` ends without dequeuing, and a thread dequeues at
\* most one task more, which it can only do having passed that test before.
StopOnRecheck ==
    /\ [](\A w \in Threads :
            /\ deqAfterErr[w] <= 1
            /\ pc[w] = "get" => sawEmpty[w])
    /\ [][\A w \in Threads :
            (errors # <<>> /\ pc[w] = "check" /\ pc'[w] # "check") =>
                (pc'[w] = "dead" /\ deqOrder' = deqOrder)]_vars

\* A thread dequeued a task after the error was recorded, another thread
\* saw the error and ended.
StopOnRecheckWitness ==
    /\ errors # <<>>
    /\ \E w \in Threads :
          /\ deqAfterErr[w] = 1
          /\ pc[w] = "call"
          /\ \E v \in Threads \ {w} : pc[v] = "dead" /\ ~sawEmpty[v]

\* C4, global FIFO dispatch: the tasks are dequeued in the order they were
\* put (task k is the k-th put), whichever threads dequeue them: when a task
\* is dequeued, every task put before it has been dequeued before it.
GlobalFifo == \A i \in 1..Len(deqOrder) : deqOrder[i] = i

\* All the tasks have been dequeued, and two threads hold tasks at once.
GlobalFifoWitness ==
    /\ Len(deqOrder) = MaxTasks
    /\ \E w, v \in Threads : w # v /\ pc[w] = "call" /\ pc[v] = "call"

\* C5, wait() semantics: a wait() that joined has returned with every thread
\* terminated and no task in flight, and nothing is dequeued or invoked from
\* then on; a wait() on a pool that is not started returns at once, blocks
\* nowhere and leaves the threads and the tasks as they were.
WaitSemantics ==
    /\ [](waitResult = "joined" => AllDead /\ InFlight = {})
    /\ [](callerPc = "join" => started)
    /\ [][waitResult = "joined" => deqOrder' = deqOrder /\ invoked' = invoked]_vars
    /\ [][(~started /\ waitResult' # waitResult) =>
            /\ waitResult' = "noop"
            /\ callerPc' = callerPc
            /\ pc' = pc /\ invoked' = invoked /\ queue' = queue]_vars

\* wait() returned at once before start(), and later returned from its joins
\* with tasks run.
WaitSemanticsWitness ==
    /\ waitResult = "joined"
    /\ Len(deqOrder) >= 2
    /\ AllDead

\* wait() has returned at once on a pool with tasks queued and not started.
WaitNoopWitness ==
    /\ waitResult = "noop"
    /\ ~started
    /\ queue # <<>>

\* C6, late tasks never run: a task passed to add_task() when every thread
\* has terminated is never invoked and stays in the queue, and a wait()
\* made before or after it still returns.
LateTasksNeverRun ==
    /\ [](\A t \in late : invoked[t] = 0 /\ t \in Range(queue))
    /\ (callerPc = "join" /\ late # {}) ~> (waitResult = "joined" /\ callerPc = "idle")

\* A task was added after the threads ended, and wait() has returned.
LateTasksWitness ==
    /\ late # {}
    /\ waitResult = "joined"
    /\ \A t \in late : t \in Range(queue)

RejectedPaths ==
    {q \in DOMAIN fs : namefilter.given /\ EntryName(q, Top) \in namefilter.rejects}

\* C8, name-filter pruning: no update of a walk is made for an entry whose
\* name the filter rejects, nor for any entry below such an entry, whatever
\* the filter says of the names below.
NameFilterPruning ==
    \A i \in 1..Len(walks) : \A k \in 1..Len(walks[i].h) :
        \A q \in RejectedPaths : ~IsPrefix(q, walks[i].h[k].src)

\* A walk fed the top directory and met a rejected directory that holds an
\* entry whose own name the filter accepts.
NameFilterPruningWitness ==
    /\ Len(walks) >= 1
    /\ walks[1].h # <<>>
    /\ \E d \in RejectedPaths :
          /\ IsDir(d)
          /\ \E c \in Children(d) : c \notin RejectedPaths

\* C9 as stated: two walks of the same tree with the same root and filter
\* give the same digest.
HashDeterminism ==
    Len(walks) = 2 => Digest(walks[1].h) = Digest(walks[2].h)

\* The bytes one unchunked read of every file would feed: each name, and
\* after a file's name the whole content of the file.
RECURSIVE WholeReadDigest(_)
WholeReadDigest(h) ==
    IF h = <<>> THEN <<>>
    ELSE LET r == Head(h)
         IN  (IF r.kind = "name"
              THEN r.data \o (IF IsDir(r.src) THEN <<>> ELSE Content(r.src))
              ELSE <<>>) \o WholeReadDigest(Tail(h))

\* C10, chunked read equivalence: whatever the lengths of the files and the
\* chunk size, a walk feeds the bytes that one read of each whole file would
\* feed, in chunks that are never empty and never longer than the chunk size.
ChunkedReadEquivalence ==
    \A i \in 1..Len(walks) :
        /\ Digest(walks[i].h) = WholeReadDigest(walks[i].h)
        /\ \A k \in 1..Len(walks[i].h) :
              walks[i].h[k].kind = "chunk" =>
                  /\ Len(walks[i].h[k].data) >= 1
                  /\ Len(walks[i].h[k].data) <= chunksize

\* A walk read a file whose length is no multiple of the chunk size in
\* several chunks, the last one short.
ChunkedReadWitness ==
    /\ Len(walks) >= 1
    /\ \E k \in 2..Len(walks[1].h) :
          LET a == walks[1].h[k - 1]
              b == walks[1].h[k]
          IN  /\ a.kind = "chunk" /\ b.kind = "chunk" /\ a.src = b.src
              /\ Len(a.data) = chunksize
              /\ Len(b.data) < chunksize
              /\ fs[a.src].len % chunksize # 0

(***************************************************************************)
(* Further properties of the pool.                                         *)
(***************************************************************************)
\* C11 as stated: a start() made when the threads were launched before
\* launches them again and goes on as the first call did.
StartTwiceRelaunches ==
    [][(pc[1] # "new" /\ callerPc = "idle" /\ callerPc' \in {"start", "raised"}) =>
          (callerPc' = "start" /\ pc'[1] = "check")]_vars

\* C11, start() twice, amended: a start() made when the threads were launched
\* before raises RuntimeError at its first thread.start(), launches nothing
\* and leaves the pool as it was; a thread that has terminated never runs
\* again.
StartTwiceRaises ==
    /\ [][(pc[1] # "new" /\ callerPc = "idle" /\ callerPc' \in {"start", "raised"}) =>
            (callerPc' = "raised" /\ pc' = pc /\ started' = started
             /\ queue' = queue /\ errors' = errors)]_vars
    /\ [][\A w \in Threads : pc[w] = "dead" => pc'[w] = "dead"]_vars

\* The pool was started, ran to the end, and a second start() has raised.
StartTwiceWitness ==
    /\ callerPc = "raised"
    /\ started
    /\ AllDead

(***************************************************************************)
(* Further properties of hash_path.                                        *)
(***************************************************************************)
\* The name tokens a walk fed.
NameTokens(h) == {k \in 1..Len(h) : h[k].kind = "name"}

\* C12, trailing-separator disambiguation: in every walk the name token fed
\* for a directory ends with the byte of "/" and the one fed for a file does
\* not, so the token of a directory is never the token of a file.
TrailingSeparator ==
    \A i \in 1..Len(walks) :
        LET h == walks[i].h
        IN  /\ \A k \in NameTokens(h) :
                  (h[k].data[Len(h[k].data)] = Slash) <=> IsDir(h[k].src)
            /\ \A k, m \in NameTokens(h) :
                  (IsDir(h[k].src) /\ ~IsDir(h[m].src)) => h[k].data # h[m].data

\* A walk fed the token of a directory below the top and the token of a file.
TrailingSeparatorWitness ==
    /\ Len(walks) >= 1
    /\ \E k, m \in NameTokens(walks[1].h) :
          /\ IsDir(walks[1].h[k].src) /\ walks[1].h[k].src # Top
          /\ ~IsDir(walks[1].h[m].src)

(***************************************************************************)
(* Termination and conservation in the pool.                               *)
(***************************************************************************)
\* C13, pool termination: with the threads scheduled fairly and every task
\* returning or raising, once start() is under way every thread eventually
\* terminates and no wait() is left in its joins; a wait() leaves its joins
\* only by returning, with every thread terminated.
PoolTermination ==
    /\ (callerPc = "start" \/ started) ~> (AllDead /\ callerPc # "join")
    /\ [][(callerPc = "join" /\ callerPc' # "join") =>
            (AllDead /\ callerPc' = "idle" /\ waitResult' = "joined")]_vars

\* The threads stopped on an error with tasks left in the queue, and wait()
\* has returned.
PoolTerminationWitness ==
    /\ AllDead
    /\ waitResult = "joined"
    /\ errors # <<>>
    /\ queue # <<>>
    /\ late = {}

\* Where a task is: how often in the queue, on how many threads, and whether
\* it is finished (invoked, and on no thread any more).
Queued(t) == Cardinality({i \in 1..Len(queue) : queue[i] = t})
Holders(t) == {w \in Threads : task[w] = t}
Finished(t) == invoked[t] >= 1 /\ Holders(t) = {}
Places(t) == Queued(t) + Cardinality(Holders(t)) + (IF Finished(t) THEN 1 ELSE 0)

\* C14, task conservation: in every state each task added is in exactly one
\* place (the queue, one thread, or finished) and has been invoked at most
\* once, not at all while it waits in the queue or for its thread to call it;
\* a task not added yet is nowhere.
TaskConservation ==
    \A t \in Tasks :
        IF t <= added
        THEN /\ Places(t) = 1
             /\ invoked[t] <= 1
             /\ Queued(t) = 1 => invoked[t] = 0
             /\ \A w \in Holders(t) : pc[w] = "call" => invoked[t] = 0
        ELSE Places(t) = 0 /\ invoked[t] = 0

\* After an error, with tasks added before and after start(): one task
\* waits in the queue, one is on a thread and one is finished.
TaskConservationWitness ==
    /\ errors # <<>>
    /\ preStart >= 1 /\ preStart < added
    /\ \E a, b, c \in Tasks :
          /\ Queued(a) = 1
          /\ Holders(b) # {}
          /\ Finished(c)

RECURSIVE SumOver(_, _)
SumOver(f, S) ==
    IF S = {} THEN 0
    ELSE LET x == CHOOSE y \in S : TRUE IN f[x] + SumOver(f, S \ {x})

\* C15, bounded overrun: once the first error is appended, the thread that
\* appended it dequeues nothing more and every other thread at most one task,
\* NThreads - 1 tasks at most in all; when the threads have ended, the tasks
\* left in the queue are uninvoked and no step invokes or dequeues them.
BoundedOverrun ==
    /\ [](errors # <<>> =>
            /\ recorder \in Threads
            /\ deqAfterErr[recorder] = 0
            /\ \A w \in Threads : deqAfterErr[w] <= 1
            /\ SumOver(deqAfterErr, Threads) <= NThreads - 1
            /\ AllDead => \A i \in 1..Len(queue) : invoked[queue[i]] = 0)
    /\ [][(errors # <<>> /\ AllDead) =>
            /\ invoked' = invoked
            /\ deqOrder' = deqOrder
            /\ Len(queue') >= Len(queue)
            /\ SubSeq(queue', 1, Len(queue)) = queue]_vars

\* Every thread but the recorder has dequeued one task after the first
\* error, all threads have ended and a task is still pending.
BoundedOverrunWitness ==
    /\ errors # <<>>
    /\ recorder \in Threads
    /\ \A w \in Threads \ {recorder} : deqAfterErr[w] = 1
    /\ AllDead
    /\ queue # <<>>

\* C17, no work before start: as long as start() has not been called, every
\* thread is still unstarted, no task has been dequeued or invoked, errors is
\* empty and every task added waits in the queue.
NoWorkBeforeStart ==
    ~StartCalled =>
        /\ \A w \in Threads : pc[w] = "new" /\ task[w] = NoTask
        /\ \A t \in Tasks : invoked[t] = 0
        /\ deqOrder = <<>>
        /\ errors = <<>>
        /\ queue = [i \in 1..added |-> i]

\* Before start(), with as many tasks enqueued as the bound allows.
NoWorkBeforeStartWitness ==
    /\ ~StartCalled
    /\ added = MaxTasks
    /\ Len(queue) = MaxTasks

\* The reference pre-order traversal from entry p: nothing for an entry the
\* filter rejects, else the entry's name, then for a directory the streams
\* of its children in the order iterated, for a file its bytes.
RECURSIVE RefStream(_, _), RefChildren(_, _)
RefStream(p, order) ==
    IF namefilter.given /\ EntryName(p, Top) \in namefilter.rejects THEN <<>>
    ELSE Encode(EntryName(p, Top))
            \o (IF IsDir(p) THEN RefChildren(order[p], order) ELSE Content(p))
RefChildren(children, order) ==
    IF children = <<>> THEN <<>>
    ELSE RefStream(Head(children), order) \o RefChildren(Tail(children), order)

\* The entries a walk reaches: those with no rejected entry on the way down.
Walked == {p \in DOMAIN fs : \A q \in RejectedPaths : ~IsPrefix(q, p)}
\* The positions in accumulator h of what was fed for p and below it.
FedUnder(h, p) == {k \in 1..Len(h) : IsPrefix(p, h[k].src)}

\* C16, pre-order feed: in every walk each entry reached has one name token,
\* which is the first thing fed for the entry and everything below it, what
\* is fed for an entry's subtree is fed in one run, nothing is fed for an
\* entry not reached, and the bytes fed to the returned accumulator are the
\* reference pre-order traversal.
PreOrderFeed ==
    \A i \in 1..Len(walks) :
        LET h == walks[i].h
        IN  /\ Digest(h) = RefStream(Top, walks[i].order)
            /\ \A p \in Walked :
                  LET F == FedUnder(h, p)
                      first == CHOOSE k \in F : \A m \in F : k <= m
                  IN  /\ F # {}
                      /\ h[first].src = p /\ h[first].kind = "name"
                      /\ h[first].data = Encode(EntryName(p, Top))
                      /\ \A k \in F \ {first} : ~(h[k].src = p /\ h[k].kind = "name")
                      /\ \A k \in 1..Len(h) : (first <= k /\ k < first + Cardinality(F)) => k \in F
            /\ \A p \in DOMAIN fs \ Walked : FedUnder(h, p) = {}

\* A walk that fed the name of a directory below the top, then the name of
\* a file in it, then the file's content in more than one chunk.
PreOrderFeedWitness ==
    /\ Len(walks) >= 1
    /\ \E d, f \in DOMAIN fs :
          /\ Len(d) = 1 /\ IsDir(d) /\ Parent(f) = d /\ ~IsDir(f)
          /\ Cardinality({k \in 1..Len(walks[1].h) :
                 walks[1].h[k].src = f /\ walks[1].h[k].kind = "chunk"}) >= 2

=============================================================================
